---- MODULE Spec2Model ----
(***************************************************************************)
(* A model of the Merkle Prefix Tree of merkle_prefix_tree/tree.py and     *)
(* merkle_prefix_tree/nodes.py.                                            *)
(*                                                                         *)
(* Node objects live in a heap `nodes` (a function from object ids to      *)
(* records with the fields of TreeNode).  Digests are strings: hash_func   *)
(* is modelled as an ideal (injective) hash "H(" ++ preimage ++ ")", and   *)
(* `+` on digests is string concatenation, as in the code.  The unset      *)
(* digest of a fresh InteriorNode is None; `None + bytes` raises           *)
(* TypeError, as in Python.                                                *)
(*                                                                         *)
(* Objects that are no longer reachable from _root_node can not be         *)
(* reached by any later call (every method starts at _root_node and        *)
(* follows left/right), so each action ends by dropping them and naming    *)
(* the reachable objects by their position (root = 1, left child of k =    *)
(* 2k, right child of k = 2k+1).                                           *)
(***************************************************************************)
EXTENDS Integers, Sequences, FiniteSets, TLC

\* ------------------------------------------------------------------ bounds
MaxHeight == 2

\* ------------------------------------------------------------------ values
Null == 0
None == "None"
TypeError == "TypeError"
Detached == -1

IntValue(n) == [type |-> "int", int |-> n, str |-> ""]
StrValue(s) == [type |-> "str", int |-> 0, str |-> s]
NoData == [type |-> "none", int |-> 0, str |-> ""]

Values == {IntValue(3), StrValue("3"), StrValue("0b0")}

RECURSIVE SeqsOfLen(_, _)
SeqsOfLen(S, n) ==
    IF n = 0 THEN {<<>>}
    ELSE {Append(s, x) : s \in SeqsOfLen(S, n - 1), x \in S}

Zeros(n) == [i \in 1..n |-> "0"]

ValidPrefixes(h) == SeqsOfLen({"0", "1"}, h)

\* the prefixes the calls are tried with on a tree of height h: every valid
\* one, one that is too short, one that is too long, and one with a symbol
\* outside {0, 1} at each position
BadSymbolPrefixes(h) == {[Zeros(h) EXCEPT ![i] = "a"] : i \in 1..h}

PrefixInputs(h) ==
    ValidPrefixes(h) \cup BadSymbolPrefixes(h) \cup {Zeros(h - 1), Zeros(h + 1)}

\* ------------------------------------------------------- hashing, encoding
k_empty == "0b0"

Digits == <<"0", "1", "2", "3", "4", "5", "6", "7", "8", "9">>

json_dumps(n) == Digits[n + 1]

default_serialize_func(to_serialize) ==
    IF to_serialize.type # "str" THEN json_dumps(to_serialize.int)
    ELSE to_serialize.str

default_hash_func(to_hash) == "H(" \o to_hash \o ")"

hash_func(to_hash) == default_hash_func(to_hash)

serialize_func(to_serialize) == default_serialize_func(to_serialize)

hash_hashes(hash_1, hash_2) ==
    IF hash_1 = None \/ hash_2 = None THEN TypeError
    ELSE hash_func(hash_1 \o hash_2)

\* -------------------------------------------------------------------- nodes
TreeNode(kind, bit) ==
    [kind |-> kind, bit |-> bit, left |-> Null, right |-> Null,
     parent |-> Null, hash |-> None, data |-> NoData]

InteriorNode(bit) == TreeNode("InteriorNode", bit)

DataNode(bit, data) ==
    [TreeNode("DataNode", bit) EXCEPT
        !.data = data,
        !.hash = hash_func(serialize_func(data))]

root_node == 1

RECURSIVE Pow2(_)
Pow2(n) == IF n = 0 THEN 1 ELSE 2 * Pow2(n - 1)

\* the id of the object created by the i-th iteration of append's loop
NewId(h, i) == Pow2(h + 1) + i

Put(dict, k, v) == (k :> v) @@ dict

\* ------------------------------------------------------------- construction
RECURSIVE precompute_loop(_, _, _, _)
precompute_loop(h, i, curr_hash, hash_dict) ==
    IF i >= h THEN [hash_dict |-> hash_dict, root_hash |-> curr_hash]
    ELSE LET new_hash == hash_func(curr_hash \o curr_hash)
             curr_height == h - i - 1
         IN  precompute_loop(h, i + 1, new_hash, Put(hash_dict, curr_height, new_hash))

\* precompute_empty_hashes with the level index off by one (height - i)
RECURSIVE precompute_loop_shifted(_, _, _, _)
precompute_loop_shifted(h, i, curr_hash, hash_dict) ==
    IF i >= h THEN [hash_dict |-> hash_dict, root_hash |-> curr_hash]
    ELSE LET new_hash == hash_func(curr_hash \o curr_hash)
             curr_height == h - i
         IN  precompute_loop_shifted(h, i + 1, new_hash,
                                     Put(hash_dict, curr_height, new_hash))

precompute_empty_hashes_shifted(h) ==
    LET curr_hash == hash_func(k_empty)
    IN  precompute_loop_shifted(h, 0, curr_hash, (h :> curr_hash))

precompute_empty_hashes(h) ==
    LET curr_hash == hash_func(k_empty)
    IN  precompute_loop(h, 0, curr_hash, (h :> curr_hash))

\* init_tree without the assignment of the empty-tree digest to the root
init_tree_root_unset(h, ao) ==
    IF h < 1
    THEN [exc |-> "ValueError", height |-> h, append_only |-> FALSE,
          nodes |-> <<>>, empty_tree_hash_dict |-> <<>>]
    ELSE [exc |-> "", height |-> h, append_only |-> ao,
          nodes |-> (root_node :> InteriorNode(None)),
          empty_tree_hash_dict |-> precompute_empty_hashes(h).hash_dict]

\* init_tree that rejects negative heights only
init_tree_accepts_zero(h, ao) ==
    IF h < 0
    THEN [exc |-> "ValueError", height |-> h, append_only |-> FALSE,
          nodes |-> <<>>, empty_tree_hash_dict |-> <<>>]
    ELSE LET pre == precompute_empty_hashes(h)
         IN  [exc |-> "", height |-> h, append_only |-> ao,
              nodes |-> (root_node :> [InteriorNode(None) EXCEPT !.hash = pre.root_hash]),
              empty_tree_hash_dict |-> pre.hash_dict]

init_tree(h, ao) ==
    IF h < 1
    THEN [exc |-> "ValueError", height |-> h, append_only |-> FALSE,
          nodes |-> <<>>, empty_tree_hash_dict |-> <<>>]
    ELSE LET pre == precompute_empty_hashes(h)
         IN  [exc |-> "", height |-> h, append_only |-> ao,
              nodes |-> (root_node :> [InteriorNode(None) EXCEPT !.hash = pre.root_hash]),
              empty_tree_hash_dict |-> pre.hash_dict]

\* ------------------------------------------------------------------- state
VARIABLES height, append_only, nodes, empty_tree_hash_dict, appended, last,
          calls

vars == <<height, append_only, nodes, empty_tree_hash_dict, appended, last, calls>>

\* the call made last and the exception it raised ("": it returned)
Call(op, exc) == [op |-> op, exc |-> exc]

NoCall == Call("init", "")

\* no append call is in flight: every call runs from entry to return alone
NoCalls == <<>>

Init ==
    \E h \in 1..MaxHeight, ao \in BOOLEAN :
        LET t == init_tree(h, ao)
        IN  /\ height = t.height
            /\ append_only = t.append_only
            /\ nodes = t.nodes
            /\ empty_tree_hash_dict = t.empty_tree_hash_dict
            /\ appended = [p \in ValidPrefixes(h) |-> NoData]
            /\ last = NoCall
            /\ calls = NoCalls

\* -------------------------------------------------------- prefix validation
\* verify_prefix without the check of the symbols
verify_prefix_length_only(prefix, h) ==
    IF Len(prefix) # h THEN "ValueError" ELSE ""

verify_prefix(prefix, h) ==
    IF Len(prefix) # h THEN "ValueError"
    ELSE IF \E i \in 1..Len(prefix) : prefix[i] \notin {"0", "1"} THEN "ValueError"
    ELSE ""

\* ------------------------------------------------------------------- lookup
get_root_hash(ns) == ns[root_node].hash

RECURSIVE get_data_node_loop(_, _, _, _)
get_data_node_loop(ns, prefix, i, curr_node) ==
    IF i > Len(prefix) THEN curr_node
    ELSE LET nxt == IF prefix[i] = "0" THEN ns[curr_node].left
                    ELSE ns[curr_node].right
         IN  IF nxt = Null THEN Null
             ELSE get_data_node_loop(ns, prefix, i + 1, nxt)

get_data_node(ns, h, prefix) ==
    IF verify_prefix(prefix, h) # "" THEN [exc |-> "ValueError", ret |-> Null]
    ELSE [exc |-> "", ret |-> get_data_node_loop(ns, prefix, 1, root_node)]

GetRootHash ==
    /\ last' = Call("get_root_hash", "")
    /\ UNCHANGED <<height, append_only, nodes, empty_tree_hash_dict, appended, calls>>

\* get_data_node that links an empty Interior node where the root has no
\* child on the side of the first symbol
GetDataNode_materializing(prefix) ==
    LET r == get_data_node(nodes, height, prefix)
        id == IF prefix[1] = "0" THEN 2 * root_node ELSE 2 * root_node + 1
    IN  /\ last' = Call("get_data_node", r.exc)
        /\ nodes' = IF r.exc = "" /\ id \notin DOMAIN nodes
                    THEN (id :> [InteriorNode(prefix[1]) EXCEPT !.parent = root_node])
                         @@ (IF prefix[1] = "0"
                             THEN [nodes EXCEPT ![root_node].left = id]
                             ELSE [nodes EXCEPT ![root_node].right = id])
                    ELSE nodes
        /\ UNCHANGED <<height, append_only, empty_tree_hash_dict, appended, calls>>

GetDataNode(prefix) ==
    LET r == get_data_node(nodes, height, prefix)
    IN  /\ last' = Call("get_data_node", r.exc)
        /\ UNCHANGED <<height, append_only, nodes, empty_tree_hash_dict, appended, calls>>

\* ---------------------------------------------------------- reachability
\* the objects that id reaches along left/right, named by their position:
\* id itself is named cid, its left child 2 * cid, its right child 2 * cid + 1;
\* pid is the object whose link led to id
RECURSIVE Reach(_, _, _, _)
Reach(ns, id, cid, pid) ==
    IF id = Null THEN <<>>
    ELSE (cid :> [ns[id] EXCEPT
                    !.left = IF @ = Null THEN Null ELSE 2 * cid,
                    !.right = IF @ = Null THEN Null ELSE 2 * cid + 1,
                    !.parent = IF @ = pid THEN cid \div 2 ELSE Detached])
         @@ Reach(ns, ns[id].left, 2 * cid, id)
         @@ Reach(ns, ns[id].right, 2 * cid + 1, id)

\* drop the objects that _root_node no longer reaches; name the others by
\* their position
Canon(ns) == Reach(ns, root_node, root_node, Null)

\* ------------------------------------------------------------------- rehash
RECURSIVE rehash_loop(_, _, _, _)
rehash_loop(ns, dict, i, leaf_node) ==
    IF i < 0 THEN [nodes |-> ns, exc |-> ""]
    ELSE LET curr_node == ns[leaf_node].parent
             empty_hash == dict[i + 1]
             left_hash == IF ns[curr_node].left # Null
                          THEN ns[ns[curr_node].left].hash ELSE empty_hash
             right_hash == IF ns[curr_node].right # Null
                           THEN ns[ns[curr_node].right].hash ELSE empty_hash
             new_hash == hash_hashes(left_hash, right_hash)
         IN  IF curr_node = Null THEN [nodes |-> ns, exc |-> "AttributeError"]
             ELSE IF new_hash = TypeError THEN [nodes |-> ns, exc |-> TypeError]
             ELSE rehash_loop([ns EXCEPT ![curr_node].hash = new_hash],
                              dict, i - 1, curr_node)

\* _rehash without the isinstance test of its argument
rehash_unguarded(ns, dict, h, leaf_node) ==
    IF leaf_node = Null THEN [nodes |-> ns, exc |-> "AttributeError"]
    ELSE rehash_loop(ns, dict, h - 1, leaf_node)

rehash(ns, dict, h, leaf_node) ==
    IF leaf_node = Null \/ ns[leaf_node].kind # "DataNode"
    THEN [nodes |-> ns, exc |-> TypeError]
    ELSE rehash_loop(ns, dict, h - 1, leaf_node)

\* ------------------------------------------------------------------- append
Link(ns, prev_node, bit, new_id, new_node) ==
    LET ns1 == (new_id :> [new_node EXCEPT !.parent = prev_node]) @@ ns
    IN  IF bit = "0" THEN [ns1 EXCEPT ![prev_node].left = new_id]
        ELSE [ns1 EXCEPT ![prev_node].right = new_id]

RECURSIVE append_loop(_, _, _, _, _, _, _)
append_loop(ns, h, ao, prefix, new_data_node, i, curr_node) ==
    IF i >= h THEN [nodes |-> ns, curr_node |-> curr_node, exc |-> ""]
    ELSE LET bit == prefix[i + 1]
             prev_node == curr_node
             child == IF bit = "0" THEN ns[prev_node].left ELSE ns[prev_node].right
             new_node == IF i = h - 1 THEN new_data_node ELSE InteriorNode(bit)
             ns1 == Link(ns, prev_node, bit, NewId(h, i), new_node)
         IN  IF i < h - 1
             THEN append_loop(ns1, h, ao, prefix, new_data_node, i + 1,
                              IF child = Null THEN NewId(h, i) ELSE child)
             ELSE IF ~ao
                  THEN append_loop(ns1, h, ao, prefix, new_data_node, i + 1, NewId(h, i))
                  ELSE [nodes |-> ns1, curr_node |-> child, exc |-> "AppendOnlyError"]

\* append that links a copy of the Data node at every level of the walk
RECURSIVE append_loop_data_everywhere(_, _, _, _, _, _, _)
append_loop_data_everywhere(ns, h, ao, prefix, new_data_node, i, curr_node) ==
    IF i >= h THEN [nodes |-> ns, curr_node |-> curr_node, exc |-> ""]
    ELSE LET bit == prefix[i + 1]
             prev_node == curr_node
             child == IF bit = "0" THEN ns[prev_node].left ELSE ns[prev_node].right
             ns1 == Link(ns, prev_node, bit, NewId(h, i), new_data_node)
         IN  IF i < h - 1
             THEN append_loop_data_everywhere(ns1, h, ao, prefix, new_data_node, i + 1,
                                              IF child = Null THEN NewId(h, i) ELSE child)
             ELSE IF ~ao
                  THEN append_loop_data_everywhere(ns1, h, ao, prefix, new_data_node,
                                                   i + 1, NewId(h, i))
                  ELSE [nodes |-> ns1, curr_node |-> child, exc |-> "AppendOnlyError"]

append_data_everywhere(ns, dict, h, ao, prefix, to_append) ==
    IF verify_prefix(prefix, h) # "" THEN [nodes |-> ns, exc |-> "ValueError"]
    ELSE LET new_data_node == DataNode(prefix[Len(prefix)], to_append)
             walk == append_loop_data_everywhere(ns, h, ao, prefix, new_data_node,
                                                 0, root_node)
         IN  IF walk.exc # "" THEN [nodes |-> walk.nodes, exc |-> walk.exc]
             ELSE rehash(walk.nodes, dict, h, walk.curr_node)

append(ns, dict, h, ao, prefix, to_append) ==
    IF verify_prefix(prefix, h) # "" THEN [nodes |-> ns, exc |-> "ValueError"]
    ELSE LET new_data_node == DataNode(prefix[Len(prefix)], to_append)
             walk == append_loop(ns, h, ao, prefix, new_data_node, 0, root_node)
         IN  IF walk.exc # "" THEN [nodes |-> walk.nodes, exc |-> walk.exc]
             ELSE rehash(walk.nodes, dict, h, walk.curr_node)

AppendOp(prefix, to_append) ==
    LET r == append(nodes, empty_tree_hash_dict, height, append_only, prefix, to_append)
    IN  /\ nodes' = Canon(r.nodes)
        /\ appended' = IF r.exc = "" THEN [appended EXCEPT ![prefix] = to_append]
                       ELSE appended
        /\ last' = Call("append", r.exc)
        /\ UNCHANGED <<height, append_only, empty_tree_hash_dict, calls>>

\* ---------------------------------------------------------- inclusion proof
RECURSIVE produce_loop(_, _, _, _, _, _)
produce_loop(ns, dict, prefix, i, curr_node, inclusion_proof) ==
    IF i >= Len(prefix) THEN inclusion_proof
    ELSE LET bit == prefix[i + 1]
             opp_node == IF bit = "0" THEN ns[curr_node].right ELSE ns[curr_node].left
             nxt == IF bit = "0" THEN ns[curr_node].left ELSE ns[curr_node].right
             empty_tree_hash == dict[i + 1]
             new_proof_hash == IF opp_node # Null THEN ns[opp_node].hash
                               ELSE empty_tree_hash
         IN  IF nxt = Null THEN <<>>
             ELSE produce_loop(ns, dict, prefix, i + 1, nxt,
                               Append(inclusion_proof, new_proof_hash))

\* produce_inclusion_proof that returns the digests collected so far when
\* the descent hits an absent child
RECURSIVE produce_loop_partial(_, _, _, _, _, _)
produce_loop_partial(ns, dict, prefix, i, curr_node, inclusion_proof) ==
    IF i >= Len(prefix) THEN inclusion_proof
    ELSE LET bit == prefix[i + 1]
             opp_node == IF bit = "0" THEN ns[curr_node].right ELSE ns[curr_node].left
             nxt == IF bit = "0" THEN ns[curr_node].left ELSE ns[curr_node].right
             new_proof_hash == IF opp_node # Null THEN ns[opp_node].hash
                               ELSE dict[i + 1]
         IN  IF nxt = Null THEN inclusion_proof
             ELSE produce_loop_partial(ns, dict, prefix, i + 1, nxt,
                                       Append(inclusion_proof, new_proof_hash))

produce_inclusion_proof_partial(ns, dict, h, prefix) ==
    IF verify_prefix(prefix, h) # "" THEN [exc |-> "ValueError", ret |-> <<>>]
    ELSE [exc |-> "", ret |-> produce_loop_partial(ns, dict, prefix, 0, root_node, <<>>)]

\* produce_inclusion_proof that takes the empty digest of the level of the
\* parent for an absent sibling
RECURSIVE produce_loop_level_shifted(_, _, _, _, _, _)
produce_loop_level_shifted(ns, dict, prefix, i, curr_node, inclusion_proof) ==
    IF i >= Len(prefix) THEN inclusion_proof
    ELSE LET bit == prefix[i + 1]
             opp_node == IF bit = "0" THEN ns[curr_node].right ELSE ns[curr_node].left
             nxt == IF bit = "0" THEN ns[curr_node].left ELSE ns[curr_node].right
             new_proof_hash == IF opp_node # Null THEN ns[opp_node].hash
                               ELSE dict[i]
         IN  IF nxt = Null THEN <<>>
             ELSE produce_loop_level_shifted(ns, dict, prefix, i + 1, nxt,
                                             Append(inclusion_proof, new_proof_hash))

produce_inclusion_proof_level_shifted(ns, dict, h, prefix) ==
    IF verify_prefix(prefix, h) # "" THEN [exc |-> "ValueError", ret |-> <<>>]
    ELSE [exc |-> "",
          ret |-> produce_loop_level_shifted(ns, dict, prefix, 0, root_node, <<>>)]

\* produce_inclusion_proof that leaves out the digest collected at the root
produce_inclusion_proof_without_first(ns, dict, h, prefix) ==
    IF verify_prefix(prefix, h) # "" THEN [exc |-> "ValueError", ret |-> <<>>]
    ELSE LET proof == produce_loop(ns, dict, prefix, 0, root_node, <<>>)
         IN  [exc |-> "", ret |-> IF proof = <<>> THEN <<>> ELSE Tail(proof)]

produce_inclusion_proof(ns, dict, h, prefix) ==
    IF verify_prefix(prefix, h) # "" THEN [exc |-> "ValueError", ret |-> <<>>]
    ELSE [exc |-> "", ret |-> produce_loop(ns, dict, prefix, 0, root_node, <<>>)]

RECURSIVE validate_loop(_, _, _, _)
validate_loop(prefix, inclusion_proof, i, calculated_hash) ==
    IF i < 0 THEN calculated_hash
    ELSE LET bit == prefix[i + 1]
             left_hash == IF bit = "0" THEN calculated_hash ELSE inclusion_proof[i + 1]
             right_hash == IF bit = "1" THEN calculated_hash ELSE inclusion_proof[i + 1]
             new_hash == hash_hashes(left_hash, right_hash)
         IN  IF i + 1 > Len(prefix) THEN "IndexError"
             ELSE IF new_hash = TypeError THEN TypeError
             ELSE validate_loop(prefix, inclusion_proof, i - 1, new_hash)

\* validate_inclusion_proof with the two sides of every combination swapped
RECURSIVE validate_loop_swapped(_, _, _, _)
validate_loop_swapped(prefix, inclusion_proof, i, calculated_hash) ==
    IF i < 0 THEN calculated_hash
    ELSE LET bit == prefix[i + 1]
             left_hash == IF bit = "1" THEN calculated_hash ELSE inclusion_proof[i + 1]
             right_hash == IF bit = "0" THEN calculated_hash ELSE inclusion_proof[i + 1]
             new_hash == hash_hashes(left_hash, right_hash)
         IN  IF i + 1 > Len(prefix) THEN "IndexError"
             ELSE IF new_hash = TypeError THEN TypeError
             ELSE validate_loop_swapped(prefix, inclusion_proof, i - 1, new_hash)

validate_inclusion_proof_swapped(h, prefix, inclusion_proof, included_hash, root_hash) ==
    IF verify_prefix(prefix, h) # "" THEN [exc |-> "ValueError", ret |-> FALSE]
    ELSE LET calculated_hash ==
                 validate_loop_swapped(prefix, inclusion_proof,
                                       Len(inclusion_proof) - 1, included_hash)
         IN  IF calculated_hash \in {TypeError, "IndexError"}
             THEN [exc |-> calculated_hash, ret |-> FALSE]
             ELSE [exc |-> "", ret |-> calculated_hash = root_hash]

\* validate_inclusion_proof that compares the candidate with the root digest
\* of the tree it is called on
validate_inclusion_proof_own_root(h, prefix, inclusion_proof, included_hash, root_hash) ==
    IF verify_prefix(prefix, h) # "" THEN [exc |-> "ValueError", ret |-> FALSE]
    ELSE LET calculated_hash ==
                 validate_loop(prefix, inclusion_proof, Len(inclusion_proof) - 1,
                               included_hash)
         IN  IF calculated_hash \in {TypeError, "IndexError"}
             THEN [exc |-> calculated_hash, ret |-> FALSE]
             ELSE [exc |-> "", ret |-> calculated_hash = get_root_hash(nodes)]

validate_inclusion_proof(h, prefix, inclusion_proof, included_hash, root_hash) ==
    IF verify_prefix(prefix, h) # "" THEN [exc |-> "ValueError", ret |-> FALSE]
    ELSE LET calculated_hash ==
                 validate_loop(prefix, inclusion_proof, Len(inclusion_proof) - 1,
                               included_hash)
         IN  IF calculated_hash \in {TypeError, "IndexError"}
             THEN [exc |-> calculated_hash, ret |-> FALSE]
             ELSE [exc |-> "", ret |-> calculated_hash = root_hash]

ProduceInclusionProof(prefix) ==
    LET r == produce_inclusion_proof(nodes, empty_tree_hash_dict, height, prefix)
    IN  /\ last' = Call("produce_inclusion_proof", r.exc)
        /\ UNCHANGED <<height, append_only, nodes, empty_tree_hash_dict, appended, calls>>

LeafDigests == {hash_func(serialize_func(v)) : v \in Values}

ProofInputs(prefix) ==
    {<<>>, produce_inclusion_proof(nodes, empty_tree_hash_dict, height, prefix).ret}

RootInputs == {get_root_hash(nodes)}

ValidateInclusionProof(prefix, inclusion_proof, included_hash, root_hash) ==
    LET r == validate_inclusion_proof(height, prefix, inclusion_proof,
                                      included_hash, root_hash)
    IN  /\ last' = Call("validate_inclusion_proof", r.exc)
        /\ UNCHANGED <<height, append_only, nodes, empty_tree_hash_dict, appended, calls>>

\* -------------------------------------------------------------------- steps
Next ==
    \/ GetRootHash
    \/ \E prefix \in PrefixInputs(height) : GetDataNode(prefix)
    \/ \E prefix \in PrefixInputs(height), to_append \in Values : AppendOp(prefix, to_append)
    \/ \E prefix \in PrefixInputs(height) : ProduceInclusionProof(prefix)
    \/ \E prefix \in PrefixInputs(height) :
          \E inclusion_proof \in ProofInputs(prefix),
             included_hash \in LeafDigests, root_hash \in RootInputs :
               ValidateInclusionProof(prefix, inclusion_proof, included_hash, root_hash)

Spec == Init /\ [][Next]_vars

\* ----------------------------------------- the top-level module's tree
\* (merkle_prefix_tree.py beside the package: no append_only flag, the prefix
\* is checked for its length by get_data_node only)
top_rehash(ns, dict, h, leaf_node) ==
    IF leaf_node = Null \/ ns[leaf_node].kind # "DataNode"
    THEN [nodes |-> ns, exc |-> TypeError]
    ELSE rehash_loop(ns, dict, h - 1, leaf_node)

RECURSIVE top_append_loop(_, _, _, _, _, _)
top_append_loop(ns, h, prefix, new_data_node, i, curr_node) ==
    IF i >= h THEN [nodes |-> ns, curr_node |-> curr_node, exc |-> ""]
    ELSE IF i + 1 > Len(prefix)
    THEN [nodes |-> ns, curr_node |-> curr_node, exc |-> "IndexError"]
    ELSE LET bit == prefix[i + 1]
             prev_node == curr_node
             child == IF bit = "0" THEN ns[prev_node].left ELSE ns[prev_node].right
             new_node == IF i < h - 1 THEN InteriorNode(bit) ELSE new_data_node
         IN  IF child # Null
             THEN top_append_loop(ns, h, prefix, new_data_node, i + 1, child)
             ELSE IF bit \notin {"0", "1"}
             THEN [nodes |-> ns, curr_node |-> child, exc |-> TypeError]
             ELSE top_append_loop(Link(ns, prev_node, bit, NewId(h, i), new_node),
                                  h, prefix, new_data_node, i + 1, NewId(h, i))

top_append(ns, dict, h, prefix, to_append) ==
    IF Len(prefix) = 0 THEN [nodes |-> ns, exc |-> "IndexError"]
    ELSE LET new_data_node == DataNode(prefix[Len(prefix)], to_append)
             walk == top_append_loop(ns, h, prefix, new_data_node, 0, root_node)
         IN  IF walk.exc # "" THEN [nodes |-> walk.nodes, exc |-> walk.exc]
             ELSE top_rehash(walk.nodes, dict, h, walk.curr_node)

top_get_data_node(ns, h, prefix) ==
    IF Len(prefix) # h THEN [exc |-> "ValueError", ret |-> Null]
    ELSE [exc |-> "", ret |-> get_data_node_loop(ns, prefix, 1, root_node)]

\* ------------------------------------------- construction with any height
HeightInputs == -1..MaxHeight

get_tree_height(h) == h

GetTreeHeight ==
    /\ last' = Call("get_tree_height", "")
    /\ UNCHANGED <<height, append_only, nodes, empty_tree_hash_dict, appended, calls>>

\* the constructor raised: there is no tree to call
NoTree == Call("init", "ValueError")

InitConstruct ==
    \E h \in HeightInputs, ao \in BOOLEAN :
        LET t == init_tree(h, ao)
        IN  /\ height = t.height
            /\ append_only = t.append_only
            /\ nodes = t.nodes
            /\ empty_tree_hash_dict = t.empty_tree_hash_dict
            /\ appended = IF t.exc = "" THEN [p \in ValidPrefixes(h) |-> NoData]
                          ELSE <<>>
            /\ last = Call("init", t.exc)
            /\ calls = NoCalls

NextConstruct ==
    /\ last # NoTree
    /\ (Next \/ GetTreeHeight)

SpecConstruct == InitConstruct /\ [][NextConstruct]_vars

\* ------------------------------------- two append calls, step by step
\* Two threads call append on one fresh tree without a lock. A step is one
\* statement of append or _rehash that reads or writes the shared tree.
Threads == {1, 2}

\* the value both calls append
to_append_raced == IntValue(3)

\* the object thread t creates at level i of its walk
ThreadNewId(t, h, i) == t * Pow2(h + 1) + i

\* a call not yet entered / returned: it holds no reference into the tree
Pending(prefix) ==
    [prefix |-> prefix, pc |-> "call", i |-> 0, curr_node |-> Null,
     prev_node |-> Null, left_hash |-> None, right_hash |-> None,
     exc |-> "", overlapped |-> FALSE]

Returned(c, exc) ==
    [Pending(c.prefix) EXCEPT !.pc = "done", !.exc = exc, !.overlapped = c.overlapped]

InFlight(t) == calls[t].pc \notin {"call", "done"}

\* thread t's call ends, returning (exc = "") or raising exc, with heap ns
Finish(t, ns, exc) ==
    /\ calls' = [calls EXCEPT ![t] = Returned(calls[t], exc)]
    /\ nodes' = IF \E u \in Threads \ {t} : InFlight(u) THEN ns ELSE Canon(ns)
    /\ appended' = IF exc = "" THEN [appended EXCEPT ![calls[t].prefix] = to_append_raced]
                   ELSE appended
    /\ last' = Call("append", exc)

\* entry: _verify_prefix, the new DataNode, curr_node = self._root_node
Enter(t) ==
    /\ calls[t].pc = "call"
    /\ IF verify_prefix(calls[t].prefix, height) # ""
       THEN Finish(t, nodes, "ValueError")
       ELSE /\ calls' = [calls EXCEPT ![t].pc = "read",
                                      ![t].i = 0,
                                      ![t].curr_node = root_node,
                                      ![t].overlapped = \E u \in Threads \ {t} : InFlight(u)]
            /\ UNCHANGED <<nodes, appended, last>>
    /\ UNCHANGED <<height, append_only, empty_tree_hash_dict>>

\* prev_node = curr_node; curr_node = curr_node.left or curr_node.right
ReadChild(t) ==
    LET c == calls[t]
        bit == c.prefix[c.i + 1]
    IN  /\ c.pc = "read"
        /\ calls' = [calls EXCEPT
                        ![t].pc = "link",
                        ![t].prev_node = c.curr_node,
                        ![t].curr_node = IF bit = "0" THEN nodes[c.curr_node].left
                                         ELSE nodes[c.curr_node].right]
        /\ UNCHANGED <<height, append_only, nodes, empty_tree_hash_dict, appended, last>>

\* the new node is linked under prev_node; the walk goes on, or ends at the
\* last level (AppendOnlyError in append-only mode, else _rehash begins)
LinkNode(t) ==
    LET c == calls[t]
        bit == c.prefix[c.i + 1]
        new_id == ThreadNewId(t, height, c.i)
        new_node == IF c.i = height - 1 THEN DataNode(bit, to_append_raced)
                    ELSE InteriorNode(bit)
        ns1 == Link(nodes, c.prev_node, bit, new_id, new_node)
    IN  /\ c.pc = "link"
        /\ IF c.i < height - 1
           THEN /\ nodes' = ns1
                /\ calls' = [calls EXCEPT
                                ![t].pc = "read",
                                ![t].i = c.i + 1,
                                ![t].prev_node = Null,
                                ![t].curr_node = IF c.curr_node = Null THEN new_id
                                                 ELSE c.curr_node]
                /\ UNCHANGED <<appended, last>>
           ELSE IF append_only THEN Finish(t, ns1, "AppendOnlyError")
           ELSE /\ nodes' = ns1
                /\ calls' = [calls EXCEPT
                                ![t].pc = "rehash_left",
                                ![t].i = height - 1,
                                ![t].prev_node = Null,
                                ![t].curr_node = new_id]
                /\ UNCHANGED <<appended, last>>
        /\ UNCHANGED <<height, append_only, empty_tree_hash_dict>>

\* _rehash taking every child of curr_node for absent
rehash_child_hash_absent(ns, dict, i, child) == dict[i + 1]

\* the digest _rehash reads for a child of curr_node at level i
rehash_child_hash(ns, dict, i, child) ==
    IF child # Null THEN ns[child].hash ELSE dict[i + 1]

\* curr_node = curr_node.parent; left_hash is read
ReadLeft(t) ==
    LET c == calls[t]
        curr_node == nodes[c.curr_node].parent
    IN  /\ c.pc = "rehash_left"
        /\ calls' = [calls EXCEPT
                        ![t].pc = "rehash_right",
                        ![t].curr_node = curr_node,
                        ![t].left_hash = rehash_child_hash(nodes, empty_tree_hash_dict,
                                                           c.i, nodes[curr_node].left)]
        /\ UNCHANGED <<height, append_only, nodes, empty_tree_hash_dict, appended, last>>

\* right_hash is read
ReadRight(t) ==
    LET c == calls[t]
    IN  /\ c.pc = "rehash_right"
        /\ calls' = [calls EXCEPT
                        ![t].pc = "rehash_write",
                        ![t].right_hash = rehash_child_hash(nodes, empty_tree_hash_dict,
                                                            c.i, nodes[c.curr_node].right)]
        /\ UNCHANGED <<height, append_only, nodes, empty_tree_hash_dict, appended, last>>

\* curr_node.hash = _hash_hashes(left_hash, right_hash); the loop goes on
\* one level up, or the call returns
WriteDigest(t) ==
    LET c == calls[t]
        new_hash == hash_hashes(c.left_hash, c.right_hash)
        ns1 == [nodes EXCEPT ![c.curr_node].hash = new_hash]
    IN  /\ c.pc = "rehash_write"
        /\ IF new_hash = TypeError THEN Finish(t, nodes, TypeError)
           ELSE IF c.i = 0 THEN Finish(t, ns1, "")
           ELSE /\ nodes' = ns1
                /\ calls' = [calls EXCEPT
                                ![t].pc = "rehash_left",
                                ![t].i = c.i - 1,
                                ![t].left_hash = None,
                                ![t].right_hash = None]
                /\ UNCHANGED <<appended, last>>
        /\ UNCHANGED <<height, append_only, empty_tree_hash_dict>>

InitRace ==
    \E h \in 1..MaxHeight :
        \E p1 \in ValidPrefixes(h), p2 \in ValidPrefixes(h) :
            LET t == init_tree(h, FALSE)
            IN  /\ p1 # p2
                /\ height = t.height
                /\ append_only = t.append_only
                /\ nodes = t.nodes
                /\ empty_tree_hash_dict = t.empty_tree_hash_dict
                /\ appended = [p \in ValidPrefixes(h) |-> NoData]
                /\ last = NoCall
                /\ calls = [u \in Threads |-> Pending(IF u = 1 THEN p1 ELSE p2)]

NextRace ==
    \E t \in Threads :
        \/ Enter(t)
        \/ ReadChild(t)
        \/ LinkNode(t)
        \/ ReadLeft(t)
        \/ ReadRight(t)
        \/ WriteDigest(t)

SpecRace == InitRace /\ [][NextRace]_vars

\* ------------------------------------------------------------ observations
\* reachable objects keep a parent link to the object that links to them
ParentLinksOk == \A id \in DOMAIN nodes : nodes[id].parent = id \div 2

RECURSIVE Depth(_)
Depth(id) == IF id = root_node THEN 0 ELSE 1 + Depth(id \div 2)

IsValidPrefix(prefix, h) ==
    /\ Len(prefix) = h
    /\ \A i \in 1..Len(prefix) : prefix[i] \in {"0", "1"}

\* the exception raised by append(prefix, to_append) called in this state
Raised(prefix, to_append) ==
    append(nodes, empty_tree_hash_dict, height, append_only, prefix, to_append).exc

\* the tree that append(prefix, to_append) called in this state leaves behind
After(prefix, to_append) ==
    Canon(append(nodes, empty_tree_hash_dict, height, append_only,
                 prefix, to_append).nodes)

\* the Data node that get_data_node finds at prefix in heap ns (Null: none)
Lookup(ns, prefix) == get_data_node(ns, height, prefix).ret

HoldsValue(ns, prefix, v) ==
    /\ get_data_node(ns, height, prefix).exc = ""
    /\ Lookup(ns, prefix) # Null
    /\ ns[Lookup(ns, prefix)].kind = "DataNode"
    /\ ns[Lookup(ns, prefix)].data = v

ChildDigest(id, child) ==
    IF child # Null THEN nodes[child].hash ELSE empty_tree_hash_dict[Depth(id) + 1]

LeafDigest(v) == hash_func(serialize_func(v))

\* ------------------------------------------------------------------- claims

\* C1: after every public operation, every Interior node reachable from the
\* root at depth d has digest = hash_func(L ++ R), L and R being the digests
\* of its left and right child, or empty_hash_table[d+1] for an absent child.
C1_DigestConsistency ==
    \A id \in DOMAIN nodes :
        nodes[id].kind = "InteriorNode" =>
            LET L == ChildDigest(id, nodes[id].left)
                R == ChildDigest(id, nodes[id].right)
            IN  /\ L # None
                /\ R # None
                /\ nodes[id].hash = hash_func(L \o R)

\* C2: in overwrite mode, in every state reached by appends, for every valid
\* prefix p and value v: after append(p, v), get_data_node(p) returns a Data
\* node whose data is v.
C2_AppendLookupRoundTrip ==
    ~append_only =>
        \A p \in ValidPrefixes(height), v \in Values :
            HoldsValue(After(p, v), p, v)

\* C3: for every prefix p that has been appended, with current value v,
\* validate_inclusion_proof(p, produce_inclusion_proof(p),
\* hash_func(serialize_func(v)), get_root_hash()) returns True.
C3_ProofRoundTrip ==
    \A p \in ValidPrefixes(height) :
        appended[p] # NoData =>
            LET proof == produce_inclusion_proof(nodes, empty_tree_hash_dict, height, p)
                r == validate_inclusion_proof(height, p, proof.ret,
                                              LeafDigest(appended[p]),
                                              get_root_hash(nodes))
            IN  proof.exc = "" /\ r.exc = "" /\ r.ret = TRUE

\* C4: in overwrite mode the tree is a map from prefixes to values: for every
\* valid prefix q, get_data_node(q) returns the value most recently appended
\* at q, or None if nothing was ever appended at q.
C4_RefinesMap ==
    ~append_only =>
        \A q \in ValidPrefixes(height) :
            IF appended[q] = NoData THEN Lookup(nodes, q) = Null
            ELSE HoldsValue(nodes, q, appended[q])

\* C5: in append-only mode, append(p, v) with a valid prefix raises
\* AppendOnlyError if and only if a Data node already occupies the leaf at p;
\* an append to an unoccupied prefix completes and makes v retrievable at p.
C5_AppendOnlyErrorIffOccupied ==
    append_only =>
        \A p \in ValidPrefixes(height), v \in Values :
            /\ (Raised(p, v) = "AppendOnlyError") <=> (Lookup(nodes, p) # Null)
            /\ Lookup(nodes, p) = Null =>
                  /\ Raised(p, v) = ""
                  /\ HoldsValue(After(p, v), p, v)

\* C6: whenever append raises AppendOnlyError, the tree is exactly as it was
\* before the call: the same links, node data, node digests and root digest.
C6_NoMutationOnAppendOnlyError ==
    \A p \in PrefixInputs(height), v \in Values :
        Raised(p, v) = "AppendOnlyError" => After(p, v) = nodes

\* C7: in overwrite mode, when prefix p already holds v1, append(p, v2)
\* completes without error, get_data_node(p).data is then v2, and the root
\* digest changes when the leaf digests of v1 and v2 differ.
C7_OverwriteReplaces ==
    ~append_only =>
        \A p \in ValidPrefixes(height), v2 \in Values :
            Lookup(nodes, p) # Null =>
                LET v1 == nodes[Lookup(nodes, p)].data
                IN  /\ Raised(p, v2) = ""
                    /\ HoldsValue(After(p, v2), p, v2)
                    /\ LeafDigest(v2) # LeafDigest(v1)
                          => get_root_hash(After(p, v2)) # get_root_hash(nodes)

\* C8: append, get_data_node, produce_inclusion_proof and
\* validate_inclusion_proof raise ValueError exactly when the prefix length
\* differs from H or some symbol is not '0' or '1', and the failed call
\* leaves the tree (links, data, digests) unchanged.
C8_RaisesIffInvalid(prefix) ==
    LET invalid == ~IsValidPrefix(prefix, height)
    IN  /\ \A v \in Values :
              /\ (Raised(prefix, v) = "ValueError") <=> invalid
              /\ Raised(prefix, v) = "ValueError" => After(prefix, v) = nodes
        /\ (get_data_node(nodes, height, prefix).exc = "ValueError") <=> invalid
        /\ (produce_inclusion_proof(nodes, empty_tree_hash_dict, height, prefix).exc
               = "ValueError") <=> invalid
        /\ \A inclusion_proof \in ProofInputs(prefix),
              included_hash \in LeafDigests, root_hash \in RootInputs :
              (validate_inclusion_proof(height, prefix, inclusion_proof,
                                        included_hash, root_hash).exc
                  = "ValueError") <=> invalid

C8_PrefixValidation ==
    /\ [](\A prefix \in PrefixInputs(height) : C8_RaisesIffInvalid(prefix))
    /\ [][last'.exc = "ValueError" => nodes' = nodes]_vars

C8_Witness ==
    /\ last = Call("append", "ValueError")
    /\ Cardinality(DOMAIN nodes) > 1

RECURSIVE EmptyTreeDigest(_)
EmptyTreeDigest(n) ==
    IF n = 0 THEN hash_func(k_empty)
    ELSE hash_func(EmptyTreeDigest(n - 1) \o EmptyTreeDigest(n - 1))

\* C9: the root digest of a freshly constructed tree of height H is
\* hash_func(k_empty) with x -> hash_func(x ++ x) applied exactly H times.
C9_FreshRootDigest ==
    DOMAIN nodes = {root_node} => get_root_hash(nodes) = EmptyTreeDigest(height)

C9_Witness ==
    /\ last = Call("get_root_hash", "")
    /\ DOMAIN nodes = {root_node}
    /\ height = MaxHeight
    /\ get_root_hash(nodes) = EmptyTreeDigest(MaxHeight)

\* C10: in every reachable state the empty-hash table has exactly the keys
\* 0..H, table[H] = hash_func(k_empty) and table[d] = hash_func(table[d+1] ++
\* table[d+1]) for d in 0..H-1; no operation changes an entry.
C10_EmptyHashTable ==
    /\ DOMAIN empty_tree_hash_dict = 0..height
    /\ empty_tree_hash_dict[height] = hash_func(k_empty)
    /\ \A d \in 0..(height - 1) :
          empty_tree_hash_dict[d] =
              hash_func(empty_tree_hash_dict[d + 1] \o empty_tree_hash_dict[d + 1])

C10_Witness ==
    /\ last = Call("append", "")
    /\ height = MaxHeight
    /\ Cardinality(DOMAIN nodes) > height + 1

\* the lookup and the proof of prefix in heap ns report absence
Absent(ns, prefix) ==
    /\ get_data_node(ns, height, prefix) = [exc |-> "", ret |-> Null]
    /\ produce_inclusion_proof(ns, empty_tree_hash_dict, height, prefix)
          = [exc |-> "", ret |-> <<>>]

\* C11: on an empty tree, and in any reachable state for any valid prefix p
\* at which no append was ever attempted, get_data_node(p) returns None and
\* produce_inclusion_proof(p) returns the empty sequence, without raising.
\* Stated inductively: every valid prefix is absent in the constructed tree,
\* an append at any other prefix keeps an absent prefix absent, and no call
\* other than append changes the tree.
C11_AbsenceIsNormal ==
    /\ [](last = NoCall => \A p \in ValidPrefixes(height) : Absent(nodes, p))
    /\ [](\A q \in PrefixInputs(height), v \in Values :
             \A ns2 \in {After(q, v)} :
                \A p \in ValidPrefixes(height) \ {q} :
                    Absent(nodes, p) => Absent(ns2, p))
    /\ [][last'.op # "append" => nodes' = nodes]_vars

\* a produce_inclusion_proof call on a tree that holds data under the left
\* child of the root and has never linked anything under the right child, so
\* that no append was ever attempted at a prefix that starts with 1
C11_Witness ==
    /\ last = Call("produce_inclusion_proof", "")
    /\ height = MaxHeight
    /\ Lookup(nodes, Zeros(height)) # Null
    /\ nodes[root_node].right = Null
    /\ Absent(nodes, [Zeros(height) EXCEPT ![1] = "1"])

\* the digests a tampered input is drawn from
TamperDigests ==
    LeafDigests \cup {empty_tree_hash_dict[d] : d \in DOMAIN empty_tree_hash_dict}

\* validate_inclusion_proof returns False
Rejects(prefix, inclusion_proof, included_hash, root_hash) ==
    validate_inclusion_proof(height, prefix, inclusion_proof, included_hash, root_hash)
        = [exc |-> "", ret |-> FALSE]

ProofOf(ns, prefix) == produce_inclusion_proof(ns, empty_tree_hash_dict, height, prefix).ret

\* C12: for a tree in which v is stored at p, with proof pi =
\* produce_inclusion_proof(p) and root digest r, validate_inclusion_proof
\* returns False when the included hash is replaced by any different digest,
\* when any single element of pi is replaced by a different digest, or when r
\* is replaced by the differing root digest of an earlier state of the tree;
\* it also returns False for the proof produced for a prefix that is not in
\* the tree together with a leaf digest different from the root.
C12_NegativeValidation ==
    \A p \in ValidPrefixes(height) :
        IF Lookup(nodes, p) # Null
        THEN LET v == nodes[Lookup(nodes, p)].data
                 pi == ProofOf(nodes, p)
                 r == get_root_hash(nodes)
             IN  /\ \A d \in TamperDigests \ {LeafDigest(v)} :
                       Rejects(p, pi, d, r)
                 /\ \A j \in 1..Len(pi) : \A d \in TamperDigests \ {pi[j]} :
                       Rejects(p, [pi EXCEPT ![j] = d], LeafDigest(v), r)
                 /\ \A q \in ValidPrefixes(height), v2 \in Values :
                       \A ns2 \in {After(q, v2)} :
                          (Lookup(ns2, p) # Null /\ get_root_hash(ns2) # r) =>
                              Rejects(p, ProofOf(ns2, p),
                                      LeafDigest(ns2[Lookup(ns2, p)].data), r)
        ELSE \A d \in LeafDigests \ {get_root_hash(nodes)} :
                 Rejects(p, ProofOf(nodes, p), d, get_root_hash(nodes))

\* the position (object id) that prefix q addresses from the root
RECURSIVE PathId(_)
PathId(q) ==
    IF Len(q) = 0 THEN root_node
    ELSE 2 * PathId(SubSeq(q, 1, Len(q) - 1)) + (IF q[Len(q)] = "0" THEN 0 ELSE 1)

RECURSIVE IsUnder(_, _)
IsUnder(id, top) == id = top \/ (id > top /\ IsUnder(id \div 2, top))

\* the subtree of heap ns that prefix q addresses: its nodes with their
\* links, data and digests (empty when nothing is linked there)
Subtree(ns, q) ==
    [id \in {i \in DOMAIN ns : IsUnder(i, PathId(q))} |-> ns[id]]

IsPrefixOf(q, p) == Len(q) <= Len(p) /\ SubSeq(p, 1, Len(q)) = q

AllPrefixes(h) == UNION {SeqsOfLen({"0", "1"}, n) : n \in 1..h}

\* C13: append(p, v) changes only the digests of the nodes on the root-to-p
\* path; for every prefix (of any length 1..H) that is not a prefix of p, the
\* subtree addressed by it from the root -- its presence, its nodes, its
\* data and its digest -- is the same before and after the call.
C13_AppendLocality ==
    \A p \in ValidPrefixes(height), v \in Values :
        \A ns2 \in {After(p, v)} :
            \A q \in AllPrefixes(height) :
                ~IsPrefixOf(q, p) => Subtree(ns2, q) = Subtree(nodes, q)

\* C14: constructing a tree with height < 1 (0 or -1) raises ValueError and
\* produces no tree; constructing with any height >= 1 succeeds and
\* get_tree_height() returns that height from then on.
C14_ConstructorHeight ==
    /\ [](\A h \in HeightInputs, ao \in BOOLEAN :
             LET t == init_tree(h, ao)
             IN  /\ (t.exc = "ValueError") <=> (h < 1)
                 /\ h < 1 => t.nodes = <<>>
                 /\ h >= 1 => /\ t.exc = ""
                              /\ root_node \in DOMAIN t.nodes
                              /\ get_tree_height(t.height) = h)
    /\ [](IF height < 1 THEN last = NoTree /\ nodes = <<>>
          ELSE last # NoTree /\ root_node \in DOMAIN nodes)
    /\ [][get_tree_height(height') = get_tree_height(height)]_vars

C14_Witness ==
    /\ last = NoTree
    /\ height = 0
    /\ nodes = <<>>

\* C15: in every reachable state and for every valid prefix p,
\* produce_inclusion_proof(p) returns a sequence of exactly H elements when a
\* Data node is present at p (get_data_node(p) is not None), and the empty
\* sequence otherwise; it never returns a sequence of any other length.
C15_ProofLength ==
    \A p \in ValidPrefixes(height) :
        LET proof == produce_inclusion_proof(nodes, empty_tree_hash_dict, height, p)
        IN  /\ proof.exc = ""
            /\ IF Lookup(nodes, p) # Null THEN Len(proof.ret) = height
               ELSE proof.ret = <<>>

\* a produce_inclusion_proof call on a tree of the largest height that holds
\* a Data node at 0..0 and none at its sibling 0..01
C15_Witness ==
    /\ last = Call("produce_inclusion_proof", "")
    /\ height = MaxHeight
    /\ Len(ProofOf(nodes, Zeros(height))) = MaxHeight
    /\ Lookup(nodes, [Zeros(height) EXCEPT ![height] = "1"]) = Null
    /\ ProofOf(nodes, [Zeros(height) EXCEPT ![height] = "1"]) = <<>>

\* the node that the walk along the first i symbols of p reaches in heap ns
\* (Null when a child on the way is absent)
PathNode(ns, p, i) == get_data_node_loop(ns, SubSeq(p, 1, i), 1, root_node)

Child(ns, id, bit) == IF bit = "0" THEN ns[id].left ELSE ns[id].right

\* the number of leading symbols of p, up to H - 1, whose Interior node exists
SharedBits(p) ==
    Cardinality({k \in 1..(height - 1) : PathNode(nodes, p, k) # Null})

\* the objects that the call created and linked into some node
NewLinked(raw) ==
    {id \in DOMAIN raw \ DOMAIN nodes :
        \E n \in DOMAIN raw : raw[n].left = id \/ raw[n].right = id}

\* C16: while walking prefix p, at every level whose required child already
\* exists, append keeps that existing node linked to its parent and descends
\* into it; a new Interior node is created and linked only at levels where
\* the child was absent, so an append into a tree that already shares the
\* first k bits of p with stored prefixes creates at most H - k new nodes.
C16_MaterializeOnlyAbsent ==
    \A p \in ValidPrefixes(height), v \in Values :
        \A raw \in {append(nodes, empty_tree_hash_dict, height, append_only, p, v).nodes} :
            /\ \A i \in 0..(height - 2) :
                  LET prev_node == PathNode(nodes, p, i)
                  IN  (prev_node # Null /\ Child(nodes, prev_node, p[i + 1]) # Null)
                          => Child(raw, prev_node, p[i + 1])
                                 = Child(nodes, prev_node, p[i + 1])
            /\ Cardinality(NewLinked(raw)) <= height - SharedBits(p)

\* C17: in overwrite mode, for every tree state reachable by any sequence of
\* appends, every valid prefix and every value, append completes normally;
\* the only errors append can ever raise are the invalid-prefix error and
\* (in append-only mode) AppendOnlyError: rehash never reads an unset digest.
C17_AppendTotal ==
    \A p \in PrefixInputs(height), v \in Values :
        /\ Raised(p, v) \in {"", "ValueError", "AppendOnlyError"}
        /\ Raised(p, v) = "AppendOnlyError" => append_only
        /\ (~append_only /\ IsValidPrefix(p, height)) => Raised(p, v) = ""

\* the candidate root digest of the fold, by recursion on the levels from the
\* root down: the level nearest the root is combined last
RECURSIVE Fold(_, _, _)
Fold(p, proof, h) ==
    IF proof = <<>> THEN h
    ELSE LET candidate == Fold(Tail(p), Tail(proof), h)
         IN  IF Head(p) = "0" THEN hash_func(candidate \o Head(proof))
             ELSE hash_func(Head(proof) \o candidate)

FoldDigests == {hash_func(k_empty), LeafDigest(IntValue(3))}

\* proofs of H digests: every sequence over FoldDigests, and the proof the
\* tree produces for p when it has H set digests
FoldProofs(p) ==
    SeqsOfLen(FoldDigests, height)
        \cup {pi \in {ProofOf(nodes, p)} :
                 Len(pi) = height /\ \A j \in 1..Len(pi) : pi[j] # None}

\* C18: for every valid prefix p, every proof of H digests, every included
\* hash h and root digest r, validate_inclusion_proof(p, proof, h, r) returns
\* True iff the candidate computed by starting from h and, for i from H-1
\* down to 0, replacing candidate by hash_func(candidate ++ proof[i]) when
\* p[i] is '0' and by hash_func(proof[i] ++ candidate) when p[i] is '1',
\* equals r.  (Evaluated in the states a validate_inclusion_proof call leaves;
\* the call changes nothing, so these cover every tree.)
C18_ValidationFold ==
    last.op = "validate_inclusion_proof" =>
        \A p \in ValidPrefixes(height) :
            \A proof \in FoldProofs(p), h \in LeafDigests :
                \A r \in {get_root_hash(nodes), Fold(p, proof, h)} :
                    validate_inclusion_proof(height, p, proof, h, r)
                        = [exc |-> "", ret |-> (Fold(p, proof, h) = r)]

\* a validate_inclusion_proof call on a tree of the largest height whose
\* produced proof for an appended prefix folds to the root digest
C18_Witness ==
    /\ last = Call("validate_inclusion_proof", "")
    /\ height = MaxHeight
    /\ \E p \in ValidPrefixes(height) :
          /\ appended[p] # NoData
          /\ ProofOf(nodes, p) \in FoldProofs(p)
          /\ Fold(p, ProofOf(nodes, p), LeafDigest(appended[p])) = get_root_hash(nodes)
          /\ validate_inclusion_proof(height, p, ProofOf(nodes, p),
                                      LeafDigest(appended[p]), get_root_hash(nodes)).ret

\* the digests of the nodes on the path of p, the root's included
PathDigests(p) ==
    {nodes[PathNode(nodes, p, k)].hash :
        k \in {j \in 0..height : PathNode(nodes, p, j) # Null}}

\* the proof produced for p cut after its first n elements, and the proof
\* with one more element
WrongLengthProofs(p) ==
    {SubSeq(ProofOf(nodes, p), 1, n) : n \in 0..Len(ProofOf(nodes, p))}
        \cup {Append(ProofOf(nodes, p), hash_func(k_empty))}

\* C19: validate_inclusion_proof never returns True for a proof whose length
\* differs from H; in particular an empty or truncated proof combined with an
\* included hash equal to the digest of the root or of an interior node on
\* the path is not accepted as proof of inclusion of a leaf.
C19_ProofLengthSoundness ==
    \A p \in ValidPrefixes(height) :
        \A proof \in WrongLengthProofs(p), h \in LeafDigests \cup PathDigests(p) :
            Len(proof) # height =>
                ~validate_inclusion_proof(height, p, proof, h, get_root_hash(nodes)).ret

\* the position of the other child of the parent of position id
SiblingId(id) == IF id % 2 = 0 THEN id + 1 ELSE id - 1

\* C20: when a Data node is present at p, element i (0 <= i < H, collected
\* top-down) of produce_inclusion_proof(p) is the digest of the sibling of
\* the path node at depth i+1, or empty_hash_table[i+1] when that sibling is
\* absent: the value rehash uses for that child.  (Elements are numbered from
\* 1 here: element j belongs to depth j.)
C20_ProofContent ==
    \A p \in ValidPrefixes(height) :
        Lookup(nodes, p) # Null =>
            LET proof == ProofOf(nodes, p)
            IN  /\ Len(proof) = height
                /\ \A j \in 1..height :
                      LET sibling == SiblingId(PathId(SubSeq(p, 1, j)))
                      IN  /\ proof[j] = IF sibling \in DOMAIN nodes
                                        THEN nodes[sibling].hash
                                        ELSE empty_tree_hash_dict[j]
                          /\ proof[j] = ChildDigest(sibling \div 2,
                                                    IF sibling \in DOMAIN nodes
                                                    THEN sibling ELSE Null)

\* a produce_inclusion_proof call on a tree of the largest height that holds
\* a Data node at 0..0 whose sibling at depth 1 is present with a set digest
\* and whose sibling at depth H is absent
C20_Witness ==
    /\ last = Call("produce_inclusion_proof", "")
    /\ height = MaxHeight
    /\ Lookup(nodes, Zeros(height)) # Null
    /\ nodes[root_node].right # Null
    /\ ProofOf(nodes, Zeros(height))[1] = nodes[nodes[root_node].right].hash
    /\ ProofOf(nodes, Zeros(height))[1] # None
    /\ ProofOf(nodes, Zeros(height))[height] = empty_tree_hash_dict[height]

\* the nodes whose digest _rehash assigns, in the order of the assignments
RECURSIVE rehash_visits(_, _, _, _)
rehash_visits(ns, dict, i, leaf_node) ==
    IF i < 0 THEN <<>>
    ELSE LET curr_node == ns[leaf_node].parent
             empty_hash == dict[i + 1]
             left_hash == IF ns[curr_node].left # Null
                          THEN ns[ns[curr_node].left].hash ELSE empty_hash
             right_hash == IF ns[curr_node].right # Null
                           THEN ns[ns[curr_node].right].hash ELSE empty_hash
             new_hash == hash_hashes(left_hash, right_hash)
         IN  IF curr_node = Null \/ new_hash = TypeError THEN <<>>
             ELSE <<curr_node>> \o rehash_visits([ns EXCEPT ![curr_node].hash = new_hash],
                                                 dict, i - 1, curr_node)

\* the heap and the node that the walk of append(p, v) hands to _rehash
WalkOf(p, v) ==
    append_loop(nodes, height, append_only, p, DataNode(p[Len(p)], v), 0, root_node)

\* C21: during every append(p, v), rehash starts at the newly appended Data
\* node, follows parent links exactly H times, and the nodes whose digests it
\* recomputes are exactly the H Interior nodes reached by descending p from
\* the root (depths H-1 down to 0) in the tree as linked at that moment, the
\* last of them being the root.
C21_RehashPath ==
    \A p \in ValidPrefixes(height), v \in Values :
        \A walk \in {WalkOf(p, v)} :
            walk.exc = "" =>
                /\ walk.curr_node = PathNode(walk.nodes, p, height)
                /\ walk.nodes[walk.curr_node] = [DataNode(p[Len(p)], v) EXCEPT
                                                    !.parent = PathNode(walk.nodes, p, height - 1)]
                /\ rehash_visits(walk.nodes, empty_tree_hash_dict, height - 1, walk.curr_node)
                      = [k \in 1..height |-> PathNode(walk.nodes, p, height - k)]

ReadOps == {"get_root_hash", "get_data_node", "produce_inclusion_proof",
            "validate_inclusion_proof"}

\* C22: get_root_hash, get_data_node, produce_inclusion_proof and
\* validate_inclusion_proof, on any reachable state and any arguments (valid
\* or not), leave every child link, parent link, node data value, node
\* digest and the root digest unchanged.
C22_ReadsChangeNothing ==
    [][last'.op \in ReadOps =>
          /\ nodes' = nodes
          /\ get_root_hash(nodes') = get_root_hash(nodes)
          /\ empty_tree_hash_dict' = empty_tree_hash_dict
          /\ height' = height
          /\ append_only' = append_only]_vars

\* a get_data_node call that raised ValueError on a tree that holds nodes
C22_Witness ==
    /\ last = Call("get_data_node", "ValueError")
    /\ height = MaxHeight
    /\ Cardinality(DOMAIN nodes) > 1

\* C23 (as stated): for two trees with the same hash function,
\* validate_inclusion_proof called with the same prefix, proof, included hash
\* and root digest gives the same result on both: the result is a function
\* of its arguments and the hash function only.  The other tree is any tree
\* of a height h2.
C23_ValidationOfArgumentsOnly ==
    \A h2 \in 1..MaxHeight :
        \A p \in PrefixInputs(height) :
            \A proof \in ProofInputs(p), h \in LeafDigests, r \in RootInputs :
                validate_inclusion_proof(h2, p, proof, h, r)
                    = validate_inclusion_proof(height, p, proof, h, r)

\* C23 (amended): for two trees of the same height and hash function but
\* different contents, validate_inclusion_proof called with the same
\* arguments gives the same result on both: the result is a function of its
\* arguments, the hash function and the height H.  Every step that changes
\* the contents of the tree leaves the result of every call unchanged.
\* (Every tree is first reached by the constructor or by an append; the
\* steps taken after a read repeat the steps taken before it.)
C23_ValidationIgnoresContents ==
    [][(nodes' # nodes /\ last.op \in {"init", "append"}) =>
          \A p \in PrefixInputs(height) :
              \A proof \in ProofInputs(p), h \in LeafDigests,
                 r \in {get_root_hash(nodes), get_root_hash(nodes')} :
                    validate_inclusion_proof(height, p, proof, h, r)'
                        = validate_inclusion_proof(height, p, proof, h, r)]_vars

\* a tree of the largest height whose contents and root digest an append has
\* just changed, and on which the proof produced for 0..0 validates
C23_Witness ==
    /\ last = Call("append", "")
    /\ height = MaxHeight
    /\ get_root_hash(nodes) # empty_tree_hash_dict[0]
    /\ appended[Zeros(height)] # NoData
    /\ validate_inclusion_proof(height, Zeros(height), ProofOf(nodes, Zeros(height)),
                                LeafDigest(appended[Zeros(height)]),
                                get_root_hash(nodes)).ret

\* C24: in every reachable state, every node reached from the root by
\* consuming fewer than H prefix bits is an Interior node, and every node
\* reached by consuming exactly H bits is a Data node; no Data node has
\* children and no node exists deeper than H.
C24_NodeDepth ==
    \A id \in DOMAIN nodes :
        /\ Depth(id) <= height
        /\ Depth(id) < height => nodes[id].kind = "InteriorNode"
        /\ Depth(id) = height => nodes[id].kind = "DataNode"
        /\ nodes[id].kind = "DataNode" =>
              nodes[id].left = Null /\ nodes[id].right = Null

\* a tree of the largest height that holds Data nodes at 0..0 and at 1..1
C24_Witness ==
    /\ last.op = "append"
    /\ height = MaxHeight
    /\ Lookup(nodes, Zeros(height)) # Null
    /\ Lookup(nodes, [i \in 1..height |-> "1"]) # Null

\* C25: for every value v that append accepts (with the default serializer,
\* which passes strings through unchanged), the leaf digest
\* hash_func(serialize_func(v)) differs from empty_hash_table[H] =
\* hash_func(k_empty), so a tree holding a value at some prefix never has the
\* same root digest as the tree without it.
C25_EmptyLeafSeparation ==
    /\ \A v \in Values : LeafDigest(v) # empty_tree_hash_dict[height]
    /\ \A p \in ValidPrefixes(height), v \in Values :
          (Lookup(nodes, p) = Null /\ Raised(p, v) = "")
              => get_root_hash(After(p, v)) # get_root_hash(nodes)

\* the tree that append(p, v) called on heap ns leaves behind
AppendOn(ns, p, v) ==
    Canon(append(ns, empty_tree_hash_dict, height, append_only, p, v).nodes)

\* the Merkle root computed from scratch over the mapping that get_data_node
\* reports in heap ns, for the subtree addressed by q
RECURSIVE MerkleRoot(_, _)
MerkleRoot(ns, q) ==
    IF Len(q) = height
    THEN IF Lookup(ns, q) # Null THEN LeafDigest(ns[Lookup(ns, q)].data)
         ELSE empty_tree_hash_dict[height]
    ELSE IF \A p \in ValidPrefixes(height) : IsPrefixOf(q, p) => Lookup(ns, p) = Null
         THEN empty_tree_hash_dict[Len(q)]
         ELSE hash_func(MerkleRoot(ns, Append(q, "0")) \o MerkleRoot(ns, Append(q, "1")))

\* C26: the root digest depends only on the current prefix-to-value mapping,
\* not on the order of insertion: two overwrite-mode appends at distinct
\* prefixes give the same root digest in either order, and get_root_hash()
\* equals the Merkle root computed from scratch over the mapping, with the
\* empty_hash_table entries for empty subtrees.
C26_HistoryIndependence ==
    ~append_only =>
        /\ get_root_hash(nodes) = MerkleRoot(nodes, <<>>)
        /\ \A p \in ValidPrefixes(height), q \in ValidPrefixes(height) :
              \A v \in Values, w \in Values :
                  p # q =>
                      get_root_hash(AppendOn(AppendOn(nodes, p, v), q, w))
                          = get_root_hash(AppendOn(AppendOn(nodes, q, w), p, v))

\* the tree that the top-level module's append(p, v) leaves behind
TopAppendOn(ns, p, v) ==
    Canon(top_append(ns, empty_tree_hash_dict, height, p, v).nodes)

\* the data that a lookup result holds (NoData: nothing found)
DataOf(ns, id) == IF id = Null THEN NoData ELSE ns[id].data

\* the package's tree pkg and the top-level module's tree top show the same
\* root digest and the same get_data_node result for every prefix
SameView(pkg, top) ==
    /\ get_root_hash(pkg) = get_root_hash(top)
    /\ \A q \in ValidPrefixes(height) :
          LET a == get_data_node(pkg, height, q)
              b == top_get_data_node(top, height, q)
          IN  /\ a.exc = b.exc
              /\ (a.ret = Null) <=> (b.ret = Null)
              /\ DataOf(pkg, a.ret) = DataOf(top, b.ret)

\* C28: for the same height and hash/serialize functions and any sequence of
\* appends at valid, pairwise distinct prefixes, the top-level module and the
\* package module in overwrite mode yield, after each append, the same root
\* digest and the same get_data_node result for every prefix.  (Sequences of
\* two appends on the two freshly constructed trees, which are equal.)
C28_ImplementationsAgree ==
    (last = NoCall /\ ~append_only) =>
        \A p \in ValidPrefixes(height), q \in ValidPrefixes(height) :
            \A v \in Values, w \in Values :
                p # q =>
                    \A pkg1 \in {AppendOn(nodes, p, v)}, top1 \in {TopAppendOn(nodes, p, v)} :
                        /\ SameView(pkg1, top1)
                        /\ SameView(AppendOn(pkg1, q, w), TopAppendOn(top1, q, w))

\* C29: _rehash invoked on a node that is not a DataNode raises TypeError
\* before recomputing any digest, leaving all digests unchanged; and in
\* every append that reaches the rehash step, the node passed to _rehash is
\* the Data node built from the appended value.
C29_RehashGuard ==
    /\ \A id \in DOMAIN nodes \cup {Null} :
          (id = Null \/ nodes[id].kind # "DataNode") =>
              rehash(nodes, empty_tree_hash_dict, height, id)
                  = [nodes |-> nodes, exc |-> TypeError]
    /\ \A p \in ValidPrefixes(height), v \in Values :
          \A walk \in {WalkOf(p, v)} :
              walk.exc = "" =>
                  /\ walk.curr_node = NewId(height, height - 1)
                  /\ walk.nodes[walk.curr_node].kind = "DataNode"
                  /\ walk.nodes[walk.curr_node].data = v
                  /\ walk.nodes[walk.curr_node].hash = LeafDigest(v)

\* a tree of the largest height, just appended to, with an Interior node
\* under the root on which _rehash raises TypeError
C29_Witness ==
    /\ last = Call("append", "")
    /\ height = MaxHeight
    /\ nodes[root_node].left # Null
    /\ nodes[nodes[root_node].left].kind = "InteriorNode"
    /\ rehash(nodes, empty_tree_hash_dict, height, nodes[root_node].left).exc = TypeError

\* both calls have returned or raised
BothReturned == \A t \in Threads : calls[t].pc = "done"

\* neither call was entered while the other was in flight
Serial == \A t \in Threads : ~calls[t].overlapped

\* the two leaves lie under different children of the root: the root is the
\* only ancestor they share (in a height-1 tree, the two sibling leaves)
RootOnlyShared == calls[1].prefix[1] # calls[2].prefix[1]

RootConsistent ==
    nodes[root_node].hash
        = hash_hashes(ChildDigest(root_node, nodes[root_node].left),
                      ChildDigest(root_node, nodes[root_node].right))

\* the root digest computed from one child's digest and the empty-subtree
\* digest in place of the other child's
RootStale ==
    \/ nodes[root_node].hash
         = hash_hashes(ChildDigest(root_node, nodes[root_node].left),
                       empty_tree_hash_dict[1])
    \/ nodes[root_node].hash
         = hash_hashes(empty_tree_hash_dict[1],
                       ChildDigest(root_node, nodes[root_node].right))

\* two calls run one after the other leave the tree that two append
\* operations leave
SerialRunsAreAppends ==
    (BothReturned /\ Serial) =>
        \A fresh \in {init_tree(height, append_only).nodes} :
            nodes \in {AppendOn(AppendOn(fresh, calls[t].prefix, to_append_raced),
                                calls[3 - t].prefix, to_append_raced) : t \in Threads}

\* C27: when two appends at sibling leaves of a height-1 tree (at any
\* height: at leaves under different children of the root) are run one after
\* the other, both return and every Interior node's digest is the hash of
\* its children's digests; when their steps are interleaved and both return,
\* the digests below the root are still consistent and the root digest is
\* either consistent or a stale one, computed without the other call's leaf.
C27_SerialAppendsConsistent ==
    (BothReturned /\ RootOnlyShared) =>
        /\ Serial =>
              /\ \A t \in Threads : calls[t].exc = ""
              /\ \A t \in Threads : HoldsValue(nodes, calls[t].prefix, to_append_raced)
              /\ \A id \in DOMAIN nodes :
                    nodes[id].kind = "InteriorNode" =>
                        nodes[id].hash = hash_hashes(ChildDigest(id, nodes[id].left),
                                                     ChildDigest(id, nodes[id].right))
        /\ (\A t \in Threads : calls[t].exc = "") =>
              /\ RootConsistent \/ RootStale
              /\ \A id \in DOMAIN nodes \ {root_node} :
                    nodes[id].kind = "InteriorNode" =>
                        nodes[id].hash = hash_hashes(ChildDigest(id, nodes[id].left),
                                                     ChildDigest(id, nodes[id].right))

\* interleaved, both calls returned, both values are in the tree, and the
\* root digest is stale: the digest written last was computed before the
\* other call's leaf was linked
C27_Witness ==
    /\ BothReturned
    /\ ~Serial
    /\ RootOnlyShared
    /\ \A t \in Threads : calls[t].exc = ""
    /\ \A t \in Threads : HoldsValue(nodes, calls[t].prefix, to_append_raced)
    /\ ~RootConsistent
    /\ RootStale
====
